---- MODULE Spec2Model ----
(***************************************************************************)
(* Model of samples/samples_demoHelper/11_jack_audio/window.c: a jack     *)
(* process callback (mixCallback) keeps a rolling window of the last      *)
(* ECHANTILLONS input samples and its FREQUENCES frequency heights, while *)
(* the main thread (main, init, the GL4D main loop with keydown and draw, *)
(* quit) reads them and plots them.                                       *)
(*                                                                         *)
(* Arrays are functions on 0..n-1, as in C.  A sample (a float in the     *)
(* code) is an integer here: every sample the model feeds is a whole      *)
(* number, which a float holds exactly, and copies of floats are exact.   *)
(* The double arithmetic of the transform is computed in fixed point.     *)
(***************************************************************************)
EXTENDS Integers, Sequences, FiniteSets

(***************************************************************************)
(* Sizes.  The program has ECHANTILLONS = 4096; the model runs the same   *)
(* code on a window scaled down to a few samples.                          *)
(***************************************************************************)
ECHANTILLONS == 8
FREQUENCES == ECHANTILLONS \div 4
_wW == 1280
_wH == 512

\* How many frames beyond ECHANTILLONS the largest input block has.
ExtraFrames == 1
\* How many times the audio subsystem invokes the process callback.
MaxCalls == 2
\* The amplitude of a loud input block.
Loud == 4096

NULL == "NULL"
\* A NULL pointer to an array: the array with no element.
NullArray == << >>
IsNullArray(a) == DOMAIN a = {}
\* No pixel plotted yet, no status returned yet.
NoPixel == << >>
NoStatus == 0 - 1

\* The keycodes the main loop delivers to keydown.
GL4DK_LEFT == "GL4DK_LEFT"
GL4DK_RIGHT == "GL4DK_RIGHT"
GL4DK_OTHER == "GL4DK_OTHER"
Keycodes == {GL4DK_LEFT, GL4DK_RIGHT, GL4DK_OTHER}
\* No keydown call is in progress.
NoKey == "none"
\* The argument counts main is started with.
ArgCounts == 1..3

\* The block sizes jack hands to the callback: none, one, half of, one fewer
\* than, exactly and more than ECHANTILLONS frames.
FrameCounts ==
  {0, 1, ECHANTILLONS \div 2, ECHANTILLONS - 1, ECHANTILLONS} \cup
  {ECHANTILLONS + k : k \in 1..ExtraFrames}

\* The contents of an input block: a ramp numbers the frames of the whole input
\* stream 1, 2, 3, ... (so every frame is told from every other); a loud block
\* holds the same large amplitude in every frame; a silent block holds zeros.
BlockKinds == {"ramp", "loud"}

PortBuffer(kind, n, pos) ==
  [j \in 0..(n - 1) |->
    IF kind = "ramp" THEN pos + j + 1 ELSE IF kind = "loud" THEN Loud ELSE 0]

(***************************************************************************)
(* C arithmetic.                                                           *)
(***************************************************************************)
Abs(x) == IF x < 0 THEN -x ELSE x

\* The conversion of a real quotient a / b (b > 0) to int: C truncates toward
\* zero, where \div rounds down.
TruncDiv(a, b) == IF a >= 0 THEN a \div b ELSE -((-a) \div b)

\* The narrowing of an int to Sint16 (two's complement, modulo 2^16).
ToSint16(v) == ((v + 32768) % 65536) - 32768

(***************************************************************************)
(* Fixed-point double arithmetic: cos, sin and exp are computed from      *)
(* their Taylor series in units of 1/10000, angles in units of 1/10000    *)
(* radian.                                                                 *)
(***************************************************************************)
FixedOne == 100 * 100
FixedPi == 3 * 10472
FixedTwoPi == 2 * FixedPi
FixedHalfPi == FixedPi \div 2

\* The series 1 - t^2/2! + t^4/4! - ... + t^12/12! for 0 <= t <= pi/2; t2 is
\* t^2 in fixed point.
RECURSIVE CosTerms(_, _, _)
CosTerms(term, t2, k) ==
  IF k > 6 THEN 0
  ELSE LET next == (term * t2) \div (FixedOne * (2 * k - 1) * (2 * k))
       IN  (IF k % 2 = 1 THEN -next ELSE next) + CosTerms(next, t2, k + 1)

CosQuarter(t) == FixedOne + CosTerms(FixedOne, (t * t) \div FixedOne, 1)

\* cos of an angle a in 0..2pi, folded into the first quarter.
FixedCos(a) ==
  LET b == IF a > FixedPi THEN FixedTwoPi - a ELSE a
  IN  IF b > FixedHalfPi THEN -CosQuarter(FixedPi - b) ELSE CosQuarter(b)

FixedSin(a) == FixedCos((a + 3 * FixedHalfPi) % FixedTwoPi)

\* The series 1 + t + t^2/2! + ... + t^16/16! for 0 <= t < 2.
RECURSIVE ExpTerms(_, _, _)
ExpTerms(term, t, k) ==
  IF k > 16 THEN 0
  ELSE LET next == (term * t) \div (FixedOne * k)
       IN  next + ExpTerms(next, t, k + 1)

FixedExp(t) == FixedOne + ExpTerms(FixedOne, t, 1)

\* The largest r with r * r <= v, found by bisection in lo..hi.
RECURSIVE SqrtIn(_, _, _)
SqrtIn(v, lo, hi) ==
  IF lo >= hi THEN lo
  ELSE LET mid == (lo + hi + 1) \div 2
       IN  IF mid * mid <= v THEN SqrtIn(v, mid, hi) ELSE SqrtIn(v, lo, mid - 1)

\* sqrt(re * re + im * im), which lies between max(|re|, |im|) and |re| + |im|.
Magnitude(re, im) ==
  SqrtIn(re * re + im * im,
         IF Abs(re) > Abs(im) THEN Abs(re) ELSE Abs(im), Abs(re) + Abs(im))

\* cos and sin of 2 pi m / ECHANTILLONS, for m in 0..ECHANTILLONS-1.
Twiddle ==
  [m \in 0..(ECHANTILLONS - 1) |->
    LET a == (FixedTwoPi * m) \div ECHANTILLONS
    IN  <<FixedCos(a), FixedSin(a)>>]

\* fftw_execute of the forward plan of init: out[k] is the sum over n of
\* in[n] * exp(-2 pi i k n / ECHANTILLONS), for every k in 0..ECHANTILLONS-1.
RECURSIVE DftSum(_, _, _, _)
DftSum(in, k, n, part) ==
  IF n = ECHANTILLONS THEN 0
  ELSE LET w == Twiddle[(k * n) % ECHANTILLONS]
           re == in[n][1]
           im == in[n][2]
       IN  (IF part = 1 THEN re * w[1] + im * w[2] ELSE im * w[1] - re * w[2])
           + DftSum(in, k, n + 1, part)

fftw_execute(in) ==
  [k \in 0..(ECHANTILLONS - 1) |->
    <<TruncDiv(DftSum(in, k, 0, 1), FixedOne),
      TruncDiv(DftSum(in, k, 0, 2), FixedOne)>>]

\* The correction factor exp(2.0 * i / (double)FREQUENCES), in units of 1/1000.
Correction ==
  [i \in 0..(FREQUENCES - 1) |->
    FixedExp((2 * FixedOne * i) \div FREQUENCES) \div 10]

\* (int)(sqrt(re * re + im * im) * exp(2.0 * i / (double)FREQUENCES)),
\* stored into a Sint16.
HauteurCorrectionAdded(out, i) ==
  ToSint16((Magnitude(out[i][1], out[i][2]) * 1000 + Correction[i]) \div 1000)
Hauteur(out, i) ==
  ToSint16((Magnitude(out[i][1], out[i][2]) * Correction[i]) \div 1000)

(***************************************************************************)
(* State.                                                                  *)
(***************************************************************************)
VARIABLES
  \* the globals of window.c
  _samples, _hauteurs, _screen, waveform,
  _in4fftw, _out4fftw, _plan4fftw, _client, _input,
  \* the main thread: its position, the status the process exits with, whether
  \* atexit(quit) is registered, whether the GL4D window exists, the index i
  \* of draw and the last pixel the draw in progress handed to gl4dpPutPixel
  pc, exitStatus, atexitQuit, window, draw_i, pixel,
  \* jack: whether the process callback is set, whether the client is active
  \* (jack invokes the callback), and the invocation in progress: its
  \* position, its index i, its nframes, its port buffer, the status returned
  callbackSet, active, cb_pc, cb_i, nframes, buffer, cb_status,
  \* history: the invocations made, the frames delivered, _samples at the entry
  \* of the invocation, the latest ECHANTILLONS values of the input stream, the
  \* complete _hauteurs each analysis pass has left (and the initial one), the
  \* heights the draw in progress has read, and the resources quit has
  \* released, in order
  calls, position, entry_samples, recent, passes, frame, released,
  \* the inputs of the main thread: the argc main was started with, and the
  \* keycode of the keydown call in progress
  argc, keycode

vars ==
  <<_samples, _hauteurs, _screen, waveform, _in4fftw, _out4fftw, _plan4fftw,
    _client, _input, pc, exitStatus, atexitQuit, window, draw_i, pixel,
    callbackSet, active, cb_pc, cb_i, nframes, buffer, cb_status,
    calls, position, entry_samples, recent, passes, frame, released,
    argc, keycode>>

globals ==
  <<_samples, _hauteurs, _screen, waveform, _in4fftw, _out4fftw, _plan4fftw,
    _client, _input>>
mainVars == <<pc, exitStatus, atexitQuit, window, draw_i, pixel>>
jackVars == <<callbackSet, active>>
cbVars == <<cb_pc, cb_i, nframes, buffer, cb_status>>
history == <<calls, position, entry_samples, recent>>
inputs == <<argc, keycode>>

Zeros(n) == [i \in 0..(n - 1) |-> 0]
\* fftw_malloc'ed arrays of ECHANTILLONS complex numbers.  init clears _in4fftw;
\* the contents of _out4fftw are written by fftw_execute before any read.
ZeroComplex == [i \in 0..(ECHANTILLONS - 1) |-> <<0, 0>>]

\* The state of the statics before main runs.
StaticInit ==
  /\ _samples = Zeros(ECHANTILLONS)
  /\ _hauteurs = Zeros(FREQUENCES)
  /\ _screen = 0
  /\ waveform = 0
  /\ draw_i = 0
  /\ pixel = NoPixel
  /\ exitStatus = NoStatus
  /\ atexitQuit = FALSE
  /\ window = FALSE
  /\ cb_pc = "idle"
  /\ cb_i = 0
  /\ nframes = 0
  /\ buffer = << >>
  /\ cb_status = NoStatus
  /\ calls = 0
  /\ position = 0
  /\ entry_samples = Zeros(ECHANTILLONS)
  /\ recent = Zeros(ECHANTILLONS)
  /\ passes = {Zeros(FREQUENCES)}
  /\ frame = << >>
  /\ released = << >>
  /\ keycode = NoKey

Init ==
  /\ StaticInit
  /\ argc \in ArgCounts
  /\ _in4fftw = NullArray
  /\ _out4fftw = NullArray
  /\ _plan4fftw = NULL
  /\ _client = NULL
  /\ _input = NULL
  /\ callbackSet = FALSE
  /\ active = FALSE
  /\ pc = "main"

(***************************************************************************)
(* mixCallback, one step per loop iteration.                               *)
(***************************************************************************)
\* if(_plan4fftw)
PlanReadyAlways(plan) == TRUE
PlanReady(plan) == plan # NULL

\* _samples[i - nframes] = _samples[i]
ShiftToOffByOne(i, n) == i - n - 1
ShiftTo(i, n) == i - n

\* _samples[i + end] = buffer[i]
AppendToFront(i, end) == i
AppendTo(i, end) == i + end

\* Where the callback goes when it reaches a loop: into its first iteration, or
\* past it when the loop has none.
EnterStageAtOne == <<"stage", 1>>
EnterStage == <<"stage", 0>>
EnterAppend(n) == IF 0 < n THEN <<"append", 0>> ELSE EnterStage
EnterShiftFromZero(n) == IF n < ECHANTILLONS THEN <<"shift", 0>> ELSE EnterAppend(n)
EnterShift(n) == IF n < ECHANTILLONS THEN <<"shift", n>> ELSE EnterAppend(n)
EnterIngest(n) == IF n > ECHANTILLONS THEN <<"replace", 0>> ELSE EnterShift(n)

\* History: the latest ECHANTILLONS values of a stream that ended with old and
\* goes on with the n frames of block.
Latest(old, block, n) ==
  [i \in 0..(ECHANTILLONS - 1) |->
    IF i + n < ECHANTILLONS THEN old[i + n] ELSE block[i + n - ECHANTILLONS]]

\* jack invokes the process callback on a block of n frames: only while the
\* client is active, and never while an invocation is in progress.
CbInvoke(n, kind) ==
  /\ cb_pc = "idle"
  /\ active
  /\ calls < MaxCalls
  /\ LET block == PortBuffer(kind, n, position)
         to == IF PlanReady(_plan4fftw) THEN EnterIngest(n) ELSE <<"return", 0>>
     IN  /\ nframes' = n
         /\ buffer' = block
         /\ cb_pc' = to[1]
         /\ cb_i' = to[2]
         /\ recent' = Latest(recent, block, n)
  /\ calls' = calls + 1
  /\ position' = position + n
  /\ entry_samples' = _samples
  /\ UNCHANGED <<inputs, globals, mainVars, jackVars, cb_status, passes, frame, released>>

\* for(int i = 0; i < ECHANTILLONS; ++i) _samples[i] = buffer[i];
CbReplace ==
  /\ cb_pc = "replace"
  /\ _samples' = [_samples EXCEPT ![cb_i] = buffer[cb_i]]
  /\ LET to == IF cb_i + 1 < ECHANTILLONS THEN <<"replace", cb_i + 1>> ELSE EnterStage
     IN  cb_pc' = to[1] /\ cb_i' = to[2]
  /\ UNCHANGED <<inputs, _hauteurs, _screen, waveform, _in4fftw, _out4fftw, _plan4fftw,
                 _client, _input, mainVars, jackVars, nframes, buffer, cb_status,
                 history, passes, frame, released>>

\* for(int i = nframes; i < ECHANTILLONS; ++i) _samples[i - nframes] = _samples[i];
CbShift ==
  /\ cb_pc = "shift"
  /\ _samples' = [_samples EXCEPT ![ShiftTo(cb_i, nframes)] = _samples[cb_i]]
  /\ LET to == IF cb_i + 1 < ECHANTILLONS THEN <<"shift", cb_i + 1>>
               ELSE EnterAppend(nframes)
     IN  cb_pc' = to[1] /\ cb_i' = to[2]
  /\ UNCHANGED <<inputs, _hauteurs, _screen, waveform, _in4fftw, _out4fftw, _plan4fftw,
                 _client, _input, mainVars, jackVars, nframes, buffer, cb_status,
                 history, passes, frame, released>>

\* int end = ECHANTILLONS - nframes;
\* for(int i = 0; i < nframes; ++i) _samples[i + end] = buffer[i];
CbAppend ==
  /\ cb_pc = "append"
  /\ LET end == ECHANTILLONS - nframes
     IN  _samples' = [_samples EXCEPT ![AppendTo(cb_i, end)] = buffer[cb_i]]
  /\ LET to == IF cb_i + 1 < nframes THEN <<"append", cb_i + 1>> ELSE EnterStage
     IN  cb_pc' = to[1] /\ cb_i' = to[2]
  /\ UNCHANGED <<inputs, _hauteurs, _screen, waveform, _in4fftw, _out4fftw, _plan4fftw,
                 _client, _input, mainVars, jackVars, nframes, buffer, cb_status,
                 history, passes, frame, released>>

\* for(i = 0; i < ECHANTILLONS; i++) _in4fftw[i][0] = _samples[i];
\* A store through a NULL _in4fftw is a memory fault.
CbStage ==
  /\ cb_pc = "stage"
  /\ IF IsNullArray(_in4fftw)
       THEN /\ cb_pc' = "fault"
            /\ UNCHANGED <<_in4fftw, cb_i>>
       ELSE /\ _in4fftw' = [_in4fftw EXCEPT ![cb_i] = <<_samples[cb_i], @[2]>>]
            /\ LET to == IF cb_i + 1 < ECHANTILLONS THEN <<"stage", cb_i + 1>>
                         ELSE <<"execute", 0>>
               IN  cb_pc' = to[1] /\ cb_i' = to[2]
  /\ UNCHANGED <<inputs, _samples, _hauteurs, _screen, waveform, _out4fftw, _plan4fftw,
                 _client, _input, mainVars, jackVars, nframes, buffer, cb_status,
                 history, passes, frame, released>>

\* The _hauteurs an analysis pass leaves once its last loop has run on out.
PassHauteurs(out) == [i \in 0..(FREQUENCES - 1) |-> Hauteur(out, i)]

\* fftw_execute(_plan4fftw);
CbExecute ==
  /\ cb_pc = "execute"
  /\ IF _plan4fftw = NULL \/ IsNullArray(_in4fftw) \/ IsNullArray(_out4fftw)
       THEN cb_pc' = "fault" /\ UNCHANGED <<_out4fftw, passes>>
       ELSE /\ cb_pc' = "hauteurs"
            /\ _out4fftw' = fftw_execute(_in4fftw)
            /\ passes' = passes \cup {PassHauteurs(_out4fftw')}
  /\ cb_i' = 0
  /\ UNCHANGED <<inputs, _samples, _hauteurs, _screen, waveform, _in4fftw, _plan4fftw,
                 _client, _input, mainVars, jackVars, nframes, buffer, cb_status,
                 history, frame, released>>

\* for(i = 0; i < FREQUENCES; i++) _hauteurs[i] = (int)(sqrt(...) * exp(...));
CbHauteurs ==
  /\ cb_pc = "hauteurs"
  /\ IF IsNullArray(_out4fftw)
       THEN cb_pc' = "fault" /\ UNCHANGED <<_hauteurs, cb_i>>
       ELSE /\ _hauteurs' = [_hauteurs EXCEPT ![cb_i] = Hauteur(_out4fftw, cb_i)]
            /\ LET to == IF cb_i + 1 < FREQUENCES THEN <<"hauteurs", cb_i + 1>>
                         ELSE <<"return", 0>>
               IN  cb_pc' = to[1] /\ cb_i' = to[2]
  /\ UNCHANGED <<inputs, _samples, _screen, waveform, _in4fftw, _out4fftw, _plan4fftw,
                 _client, _input, mainVars, jackVars, nframes, buffer, cb_status,
                 history, passes, frame, released>>

\* return 0;
CbReturn ==
  /\ cb_pc = "return"
  /\ cb_pc' = "idle"
  /\ cb_i' = 0
  /\ cb_status' = 0
  /\ UNCHANGED <<inputs, globals, mainVars, jackVars, nframes, buffer, history, passes,
                 frame, released>>

Callback ==
  \/ \E n \in FrameCounts, kind \in BlockKinds : CbInvoke(n, kind)
  \/ CbReplace
  \/ CbShift
  \/ CbAppend
  \/ CbStage
  \/ CbExecute
  \/ CbHauteurs
  \/ CbReturn

(***************************************************************************)
(* The main thread: main and init.                                         *)
(***************************************************************************)
\* The order of the release steps of quit.
QuitOrderTransformFirst ==
  <<"quit_plan", "quit_in", "quit_out", "quit_client", "quit_screen", "quit_clean">>
QuitOrderPlanBeforeClient ==
  <<"quit_screen", "quit_plan", "quit_client", "quit_in", "quit_out", "quit_clean">>
QuitOrderScreenLast ==
  <<"quit_client", "quit_plan", "quit_in", "quit_out", "quit_screen", "quit_clean">>
QuitOrder ==
  <<"quit_client", "quit_screen", "quit_plan", "quit_in", "quit_out", "quit_clean">>

\* The step of quit that follows step p; the process is gone after the last.
QuitAfter(p) ==
  LET k == CHOOSE j \in 1..Len(QuitOrder) : QuitOrder[j] = p
  IN  IF k < Len(QuitOrder) THEN QuitOrder[k + 1] ELSE "exited"

\* exit(code), or the return of main: the functions registered with atexit run,
\* then the process ends with this status.
Exit(code) ==
  /\ exitStatus' = code
  /\ pc' = IF atexitQuit THEN QuitOrder[1] ELSE "exited"

\* if(argc != 2)
ArgcAtLeast(count) == count >= 2
ArgcAccepted(count) == count = 2

\* main: the argument count is checked, then the window is created.
Main(created) ==
  /\ pc = "main"
  /\ IF ~ArgcAccepted(argc)
       THEN Exit(2) /\ UNCHANGED window
       ELSE IF ~created
              THEN Exit(1) /\ UNCHANGED window
              ELSE pc' = "init" /\ window' = TRUE /\ UNCHANGED exitStatus
  /\ UNCHANGED <<inputs, globals, atexitQuit, draw_i, pixel, jackVars, cbVars,
                 history, passes, frame, released>>

\* init: the two arrays and the plan of fftw, then the GL4D screen.
InitFftw ==
  /\ pc = "init"
  /\ _in4fftw' = ZeroComplex
  /\ _out4fftw' = ZeroComplex
  /\ _plan4fftw' = "plan"
  /\ _screen' = 1
  /\ pc' = "jack_open"
  /\ UNCHANGED <<inputs, _samples, _hauteurs, waveform, _client, _input, exitStatus,
                 atexitQuit, window, draw_i, pixel, jackVars, cbVars, history,
                 passes, frame, released>>

\* initJack: jack_client_open.
JackOpen(ok) ==
  /\ pc = "jack_open"
  /\ _client' = IF ok THEN "client" ELSE NULL
  /\ pc' = IF ok THEN "jack_port" ELSE "init_failed"
  /\ UNCHANGED <<inputs, _samples, _hauteurs, _screen, waveform, _in4fftw, _out4fftw,
                 _plan4fftw, _input, exitStatus, atexitQuit, window, draw_i, pixel,
                 jackVars, cbVars, history, passes, frame, released>>

\* if(_input == NULL) { ...; return -1; }
AfterPortUnchecked(ok) == "jack_callback"
AfterPort(ok) == IF ok THEN "jack_callback" ELSE "init_failed"

\* initJack: jack_port_register.
JackPort(ok) ==
  /\ pc = "jack_port"
  /\ _input' = IF ok THEN "port" ELSE NULL
  /\ pc' = AfterPort(ok)
  /\ UNCHANGED <<inputs, _samples, _hauteurs, _screen, waveform, _in4fftw, _out4fftw,
                 _plan4fftw, _client, exitStatus, atexitQuit, window, draw_i, pixel,
                 jackVars, cbVars, history, passes, frame, released>>

\* initJack: jack_set_process_callback(...) || ...
JackSetCallback(ok) ==
  /\ pc = "jack_callback"
  /\ callbackSet' = ok
  /\ pc' = IF ok THEN "jack_activate" ELSE "init_failed"
  /\ UNCHANGED <<inputs, globals, exitStatus, atexitQuit, window, draw_i, pixel, active,
                 cbVars, history, passes, frame, released>>

\* initJack: ... || jack_activate(_client)
JackActivate(ok) ==
  /\ pc = "jack_activate"
  /\ active' = ok
  /\ pc' = IF ok THEN "atexit" ELSE "init_failed"
  /\ UNCHANGED <<inputs, globals, exitStatus, atexitQuit, window, draw_i, pixel,
                 callbackSet, cbVars, history, passes, frame, released>>

\* init: if(initJack(clientname)) { printf(...); exit(1); }
InitFailed ==
  /\ pc = "init_failed"
  /\ Exit(1)
  /\ UNCHANGED <<inputs, globals, atexitQuit, window, draw_i, pixel, jackVars, cbVars,
                 history, passes, frame, released>>

\* main: atexit(quit), then the display and keydown functions are set and the
\* main loop starts.
AtExit ==
  /\ pc = "atexit"
  /\ atexitQuit' = TRUE
  /\ pc' = "loop"
  /\ UNCHANGED <<inputs, globals, exitStatus, window, draw_i, pixel, jackVars, cbVars,
                 history, passes, frame, released>>

(***************************************************************************)
(* The main loop: key events, display frames, and its end.                 *)
(***************************************************************************)
\* The main loop calls the keydown function on a key event.
KeyEvent(key) ==
  /\ pc = "loop"
  /\ pc' = "keydown"
  /\ keycode' = key
  /\ UNCHANGED <<argc, globals, exitStatus, atexitQuit, window, draw_i, pixel,
                 jackVars, cbVars, history, passes, frame, released>>

\* switch(keycode) { case GL4DK_LEFT: waveform = 0; break;
\*                   case GL4DK_RIGHT: waveform = 1; break; default: break; }
KeydownModeNoBreak(key, mode) ==
  IF key \in {GL4DK_LEFT, GL4DK_RIGHT} THEN 1 ELSE mode
KeydownMode(key, mode) ==
  IF key = GL4DK_LEFT THEN 0 ELSE IF key = GL4DK_RIGHT THEN 1 ELSE mode

\* keydown
Keydown ==
  /\ pc = "keydown"
  /\ waveform' = KeydownMode(keycode, waveform)
  /\ pc' = "loop"
  /\ keycode' = NoKey
  /\ UNCHANGED <<argc, _samples, _hauteurs, _screen, _in4fftw, _out4fftw,
                 _plan4fftw, _client, _input, exitStatus, atexitQuit, window,
                 draw_i, pixel, jackVars, cbVars, history, passes, frame,
                 released>>

\* if(y0 > _wH) y0 = _wH - 1; if(y0 < 0) y0 = 0;
Clamp(y0) ==
  LET y1 == IF y0 > _wH THEN _wH - 1 ELSE y0
  IN  IF y1 < 0 THEN 0 ELSE y1

\* int y0 = (_samples[i] * _wH + _wH) / 2;
WaveRow(sample) == Clamp(TruncDiv(sample * _wH + _wH, 2))
\* int y0 = _hauteurs[i];
HauteurRow(hauteur) == Clamp(hauteur)
\* int x0 = (i * (_wW - 1)) / (n - 1);
Column(i, n) == (i * (_wW - 1)) \div (n - 1)

\* if (waveform == 1)
WaveformModeInverted(mode) == mode # 1
WaveformMode(mode) == mode = 1

\* draw: the screen is cleared and the display mode is read.
DrawBegin ==
  /\ pc = "loop"
  /\ pc' = IF WaveformMode(waveform) THEN "draw_wave" ELSE "draw_freq"
  /\ draw_i' = 0
  /\ pixel' = NoPixel
  /\ frame' = << >>
  /\ UNCHANGED <<inputs, globals, exitStatus, atexitQuit, window, jackVars, cbVars,
                 history, passes, released>>

\* draw: one iteration of the loop over _samples.
DrawWave ==
  /\ pc = "draw_wave"
  /\ pixel' = <<Column(draw_i, ECHANTILLONS), WaveRow(_samples[draw_i])>>
  /\ IF draw_i + 1 < ECHANTILLONS
       THEN draw_i' = draw_i + 1 /\ UNCHANGED pc
       ELSE draw_i' = 0 /\ pc' = "draw_update"
  /\ UNCHANGED <<inputs, globals, exitStatus, atexitQuit, window, jackVars, cbVars,
                 history, passes, frame, released>>

\* draw: one iteration of the loop over _hauteurs.
DrawFreq ==
  /\ pc = "draw_freq"
  /\ pixel' = <<Column(draw_i, FREQUENCES), HauteurRow(_hauteurs[draw_i])>>
  /\ frame' = Append(frame, _hauteurs[draw_i])
  /\ IF draw_i + 1 < FREQUENCES
       THEN draw_i' = draw_i + 1 /\ UNCHANGED pc
       ELSE draw_i' = 0 /\ pc' = "draw_update"
  /\ UNCHANGED <<inputs, globals, exitStatus, atexitQuit, window, jackVars, cbVars,
                 history, passes, released>>

\* draw: gl4dpUpdateScreen(NULL) ends the frame.
DrawUpdate ==
  /\ pc = "draw_update"
  /\ pc' = "loop"
  /\ pixel' = NoPixel
  /\ frame' = << >>
  /\ UNCHANGED <<inputs, globals, exitStatus, atexitQuit, window, draw_i, jackVars,
                 cbVars, history, passes, released>>

\* gl4duwMainLoop ends (the window is closed): main returns 0.
LoopEnd ==
  /\ pc = "loop"
  /\ Exit(0)
  /\ UNCHANGED <<inputs, globals, atexitQuit, window, draw_i, pixel, jackVars, cbVars,
                 history, passes, frame, released>>

(***************************************************************************)
(* quit, one step per resource.                                            *)
(***************************************************************************)
\* if(_client) { ... jack_client_close(_client): jack stops invoking the
\* process callback, and the call returns once no invocation is in progress.
QuitClient ==
  /\ pc = "quit_client"
  /\ IF _client # NULL
       THEN active' = FALSE /\ pc' = "quit_closing"
       ELSE UNCHANGED active /\ pc' = QuitAfter("quit_client")
  /\ UNCHANGED <<inputs, globals, exitStatus, atexitQuit, window, draw_i, pixel,
                 callbackSet, cbVars, history, passes, frame, released>>

\* ... _client = NULL; }
QuitClosed ==
  /\ pc = "quit_closing"
  /\ cb_pc = "idle"
  /\ _client' = NULL
  /\ released' = Append(released, "client")
  /\ pc' = QuitAfter("quit_client")
  /\ UNCHANGED <<inputs, _samples, _hauteurs, _screen, waveform, _in4fftw, _out4fftw,
                 _plan4fftw, _input, exitStatus, atexitQuit, window, draw_i, pixel,
                 jackVars, cbVars, history, passes, frame>>

\* if(_screen) { gl4dpSetScreen(_screen); gl4dpDeleteScreen(); _screen = 0; }
QuitScreen ==
  /\ pc = "quit_screen"
  /\ IF _screen # 0
       THEN _screen' = 0 /\ released' = Append(released, "screen")
       ELSE UNCHANGED <<_screen, released>>
  /\ pc' = QuitAfter("quit_screen")
  /\ UNCHANGED <<inputs, _samples, _hauteurs, waveform, _in4fftw, _out4fftw, _plan4fftw,
                 _client, _input, exitStatus, atexitQuit, window, draw_i, pixel,
                 jackVars, cbVars, history, passes, frame>>

\* if(_plan4fftw) { fftw_destroy_plan(_plan4fftw); _plan4fftw = NULL; }
QuitPlan ==
  /\ pc = "quit_plan"
  /\ IF _plan4fftw # NULL
       THEN _plan4fftw' = NULL /\ released' = Append(released, "plan")
       ELSE UNCHANGED <<_plan4fftw, released>>
  /\ pc' = QuitAfter("quit_plan")
  /\ UNCHANGED <<inputs, _samples, _hauteurs, _screen, waveform, _in4fftw, _out4fftw,
                 _client, _input, exitStatus, atexitQuit, window, draw_i, pixel,
                 jackVars, cbVars, history, passes, frame>>

\* if(_in4fftw) { fftw_free(_in4fftw); _in4fftw = NULL; }
QuitIn ==
  /\ pc = "quit_in"
  /\ IF ~IsNullArray(_in4fftw)
       THEN _in4fftw' = NullArray /\ released' = Append(released, "in")
       ELSE UNCHANGED <<_in4fftw, released>>
  /\ pc' = QuitAfter("quit_in")
  /\ UNCHANGED <<inputs, _samples, _hauteurs, _screen, waveform, _out4fftw, _plan4fftw,
                 _client, _input, exitStatus, atexitQuit, window, draw_i, pixel,
                 jackVars, cbVars, history, passes, frame>>

\* if(_out4fftw) { fftw_free(_out4fftw); _out4fftw = NULL; }
QuitOut ==
  /\ pc = "quit_out"
  /\ IF ~IsNullArray(_out4fftw)
       THEN _out4fftw' = NullArray /\ released' = Append(released, "out")
       ELSE UNCHANGED <<_out4fftw, released>>
  /\ pc' = QuitAfter("quit_out")
  /\ UNCHANGED <<inputs, _samples, _hauteurs, _screen, waveform, _in4fftw, _plan4fftw,
                 _client, _input, exitStatus, atexitQuit, window, draw_i, pixel,
                 jackVars, cbVars, history, passes, frame>>

\* gl4duClean(GL4DU_ALL): the window and the OpenGL context are released.
QuitClean ==
  /\ pc = "quit_clean"
  /\ window' = FALSE
  /\ released' = Append(released, "gl4du")
  /\ pc' = QuitAfter("quit_clean")
  /\ UNCHANGED <<inputs, globals, exitStatus, atexitQuit, draw_i, pixel, jackVars, cbVars,
                 history, passes, frame>>

MainThread ==
  \/ \E created \in BOOLEAN : Main(created)
  \/ InitFftw
  \/ \E ok \in BOOLEAN : JackOpen(ok)
  \/ \E ok \in BOOLEAN : JackPort(ok)
  \/ \E ok \in BOOLEAN : JackSetCallback(ok)
  \/ \E ok \in BOOLEAN : JackActivate(ok)
  \/ InitFailed
  \/ AtExit
  \/ \E key \in Keycodes : KeyEvent(key)
  \/ Keydown
  \/ DrawBegin
  \/ DrawWave
  \/ DrawFreq
  \/ DrawUpdate
  \/ LoopEnd
  \/ QuitClient
  \/ QuitClosed
  \/ QuitScreen
  \/ QuitPlan
  \/ QuitIn
  \/ QuitOut
  \/ QuitClean

Next == MainThread \/ Callback

Spec == Init /\ [][Next]_vars

(***************************************************************************)
(* mixCallback on its own: jack invokes it in a state where the transform *)
(* plan and its arrays exist, or where quit has destroyed the plan, or    *)
(* where none of them exists.                                              *)
(***************************************************************************)
InitCallback ==
  /\ StaticInit
  /\ \E made \in {"all", "arrays", "none"} :
       /\ _plan4fftw = IF made = "all" THEN "plan" ELSE NULL
       /\ _in4fftw = IF made = "none" THEN NullArray ELSE ZeroComplex
       /\ _out4fftw = IF made = "none" THEN NullArray ELSE ZeroComplex
  /\ _client = "client"
  /\ _input = "port"
  /\ callbackSet = TRUE
  /\ active = TRUE
  /\ pc = "loop_held"
  /\ argc = 2

\* jack also delivers blocks of silence.
CbSilence == \E n \in FrameCounts : CbInvoke(n, "silence")

NextCallback == CbSilence \/ Callback

SpecCallback == InitCallback /\ [][NextCallback]_vars

(***************************************************************************)
(* Properties.                                                             *)
(***************************************************************************)
\* The callback has just finished the ingestion of its block.
Ingested == cb_pc = "stage" /\ cb_i = 0

\* old[n..ECHANTILLONS) followed by block[0..n), for n <= ECHANTILLONS.
ShiftedAppended(old, block, n) ==
  [i \in 0..(ECHANTILLONS - 1) |->
    IF i < ECHANTILLONS - n THEN old[i + n] ELSE block[i - (ECHANTILLONS - n)]]

\* C1: after the ingestion of a block of nframes >= ECHANTILLONS frames,
\* _samples holds the last ECHANTILLONS frames of the block, in order.
C1_LastOfBlock ==
  (Ingested /\ nframes >= ECHANTILLONS) =>
    \A i \in 0..(ECHANTILLONS - 1) :
      _samples[i] = buffer[nframes - ECHANTILLONS + i]

\* C2: after the ingestion of a block of nframes < ECHANTILLONS frames, _samples
\* holds its old elements [nframes..ECHANTILLONS) followed by the block, and
\* still has ECHANTILLONS elements; with nframes = 0 it is unchanged.
C2_ShiftAppend ==
  (Ingested /\ nframes < ECHANTILLONS) =>
    /\ DOMAIN _samples = 0..(ECHANTILLONS - 1)
    /\ _samples = ShiftedAppended(entry_samples, buffer, nframes)
    /\ nframes = 0 => _samples = entry_samples

\* C2's case: a block shorter than the window has been ingested into a window
\* that held earlier input.
C2_Witness ==
  /\ Ingested
  /\ 0 < nframes
  /\ nframes < ECHANTILLONS
  /\ entry_samples # Zeros(ECHANTILLONS)
  /\ _samples # entry_samples

\* C3: between invocations, _samples holds the latest ECHANTILLONS values of the
\* stream made of ECHANTILLONS zeros followed by every block delivered.
C3_MostRecent == cb_pc = "idle" => _samples = recent

\* C4: every row handed to gl4dpPutPixel lies in 0.._wH-1.
C4_RowInWindow == pixel # NoPixel => pixel[2] \in 0..(_wH - 1)

\* In the release log, b is released only after a has been.
ReleasedBefore(a, b) ==
  \A j \in DOMAIN released :
    released[j] = b => \E k \in 1..(j - 1) : released[k] = a

\* C5 as stated: the client is closed first, then the plan and its two arrays
\* are released, and only then the GL4D screen.
C5_ScreenAfterTransform ==
  /\ \A r \in {"plan", "in", "out", "screen"} : ReleasedBefore("client", r)
  /\ \A r \in {"plan", "in", "out"} : ReleasedBefore(r, "screen")

\* The place of a resource in the order: client, screen, plan, in, out, gl4du.
ReleaseRank(r) ==
  CHOOSE k \in 1..6 : <<"client", "screen", "plan", "in", "out", "gl4du">>[k] = r

\* C5, amended: quit closes the jack client first, then deletes the GL4D
\* screen, then releases the plan and its two arrays, and calls gl4duClean last.
C5_ReleaseOrder ==
  \A j, k \in DOMAIN released :
    j < k => ReleaseRank(released[j]) < ReleaseRank(released[k])

\* C5's case: quit has run to its end.
C5_Witness == pc = "exited" /\ Len(released) = 6

\* The plan and its two arrays exist.
TransformExists ==
  /\ _plan4fftw # NULL
  /\ ~IsNullArray(_in4fftw)
  /\ ~IsNullArray(_out4fftw)

\* C6: whenever jack may invoke the callback or an invocation is in progress,
\* the plan and its arrays exist and no invocation has faulted; and whenever
\* the main thread is about to create or release them, jack is not invoking
\* the callback and no invocation is in progress.
C6_TransformLifetime ==
  /\ (active \/ cb_pc # "idle") => (TransformExists /\ cb_pc # "fault")
  /\ pc \in {"init", "quit_plan", "quit_in", "quit_out"} =>
       (~active /\ cb_pc = "idle")

\* C6's case: quit is closing the client while an invocation is running the
\* transform.
C6_Witness == pc = "quit_closing" /\ cb_pc = "execute"

\* C7: the heights one draw reads all come from one analysis pass: they are,
\* height for height, the _hauteurs of some single pass (or the initial one).
C7_SinglePass ==
  \E h \in passes : \A j \in 1..Len(frame) : frame[j] = h[j - 1]

\* C8: an invocation made while _plan4fftw is NULL goes straight to its return,
\* changes neither _hauteurs nor the transform arrays, and returns 0.
C8_NoPlanSkips ==
  [][_plan4fftw = NULL =>
       /\ (cb_pc = "idle" /\ cb_pc' # "idle") => cb_pc' = "return"
       /\ cb_pc' \in {"idle", "return"}
       /\ UNCHANGED <<_hauteurs, _in4fftw, _out4fftw>>
       /\ cb_pc = "return" => (cb_pc' = "idle" /\ cb_status' = 0)]_vars

\* C8's case: an invocation on a block of frames has returned with no plan.
C8_Witness ==
  /\ _plan4fftw = NULL
  /\ cb_pc = "idle"
  /\ calls > 0
  /\ nframes > 0
  /\ cb_status = 0

\* C9: when an invocation returns, its block has been merged into _samples,
\* whether or not a plan exists (stated for blocks of at most ECHANTILLONS
\* frames, which C1 does not concern).
C9_AlwaysIngests ==
  (cb_pc = "return" /\ nframes <= ECHANTILLONS) =>
    _samples = ShiftedAppended(entry_samples, buffer, nframes)

\* C10: _hauteurs has FREQUENCES entries and each is >= 0.
C10_NonNegative ==
  /\ DOMAIN _hauteurs = 0..(FREQUENCES - 1)
  /\ \A i \in 0..(FREQUENCES - 1) : _hauteurs[i] >= 0

\* C11: the display mode starts as spectrum (waveform = 0); a keydown call
\* with GL4DK_LEFT sets it to 0, one with GL4DK_RIGHT sets it to 1, one with
\* another keycode leaves it, and no other step changes it.
C11_ModeByKeys ==
  /\ waveform = 0
  /\ [][IF pc = "keydown" /\ pc' = "loop"
          THEN waveform' = (IF keycode = GL4DK_LEFT THEN 0
                            ELSE IF keycode = GL4DK_RIGHT THEN 1 ELSE waveform)
          ELSE waveform' = waveform]_vars

\* C11's case: after a right key put the display in waveform mode, keydown is
\* called with the left key.
C11_Witness == pc = "keydown" /\ keycode = GL4DK_LEFT /\ waveform = 1

\* C12: started with an argument count other than 2, the process ends with
\* status 2 and has created no window, no plan or arrays, no GL4D screen and
\* no jack client, and has not reached the main loop.
C12_BadArgcExits2 ==
  (argc # 2 /\ pc # "main") =>
    /\ pc = "exited"
    /\ exitStatus = 2
    /\ ~window
    /\ _screen = 0
    /\ _plan4fftw = NULL
    /\ IsNullArray(_in4fftw)
    /\ IsNullArray(_out4fftw)
    /\ _client = NULL
    /\ ~callbackSet
    /\ ~active
    /\ calls = 0

\* C12's case: main was started with three arguments and has ended.
C12_Witness == argc = 3 /\ pc = "exited"

\* The positions of the main thread inside the main loop.
InLoop == {"loop", "keydown", "draw_wave", "draw_freq", "draw_update"}

\* C13: a failure of jack_client_open, jack_port_register,
\* jack_set_process_callback or jack_activate leads to exit(1) and from there
\* only to the end of the process with status 1, never to the main loop; a
\* process that leaves the main loop ends with status 0.
C13_AudioFailureExits1 ==
  [][/\ (pc = "jack_open" /\ pc' # pc) =>
          pc' = IF _client' = NULL THEN "init_failed" ELSE "jack_port"
     /\ (pc = "jack_port" /\ pc' # pc) =>
          pc' = IF _input' = NULL THEN "init_failed" ELSE "jack_callback"
     /\ (pc = "jack_callback" /\ pc' # pc) =>
          pc' = IF ~callbackSet' THEN "init_failed" ELSE "jack_activate"
     /\ (pc = "jack_activate" /\ pc' # pc) =>
          pc' = IF ~active' THEN "init_failed" ELSE "atexit"
     /\ (pc = "init_failed" /\ pc' # pc) => (pc' = "exited" /\ exitStatus' = 1)
     /\ (pc \in InLoop /\ pc' \notin InLoop) => exitStatus' = 0
     /\ exitStatus # NoStatus => exitStatus' = exitStatus
     /\ pc = "exited" => pc' = "exited"]_vars

\* C13's case: the process has ended with status 1 after the jack client was
\* opened (a later step of initJack failed).
C13_Witness == pc = "exited" /\ exitStatus = 1 /\ _client # NULL

\* C14: an analysis pass run on a window of zeros leaves every height zero.
C14_SilenceGivesZero ==
  (cb_pc = "return" /\ _plan4fftw # NULL /\ _samples = Zeros(ECHANTILLONS)) =>
    _hauteurs = Zeros(FREQUENCES)

\* C14's case: a pass has run on a window that silence has filled after an
\* earlier pass had left heights that are not all zero.
C14_Witness ==
  /\ cb_pc = "return"
  /\ _plan4fftw # NULL
  /\ _samples = Zeros(ECHANTILLONS)
  /\ nframes >= ECHANTILLONS
  /\ \E h \in passes : h # Zeros(FREQUENCES)

\* C15: when an invocation that found a plan returns, the staging array holds
\* the ECHANTILLONS samples of the window as real parts and zero imaginary
\* parts, the output array is its transform, every one of the FREQUENCES
\* heights is computed from that output, and the window is the one this
\* invocation updated with its block (stated for blocks of at most
\* ECHANTILLONS frames, which C1 does not concern).
C15_AnalysisOfUpdatedWindow ==
  (cb_pc = "return" /\ _plan4fftw # NULL) =>
    /\ _in4fftw = [i \in 0..(ECHANTILLONS - 1) |-> <<_samples[i], 0>>]
    /\ _out4fftw = fftw_execute(_in4fftw)
    /\ _hauteurs = [i \in 0..(FREQUENCES - 1) |-> Hauteur(_out4fftw, i)]
    /\ nframes <= ECHANTILLONS =>
         _samples = ShiftedAppended(entry_samples, buffer, nframes)

\* C15's case: a second invocation returns after its block changed a window
\* that already held input, and its pass left heights that are not all zero.
C15_Witness ==
  /\ cb_pc = "return"
  /\ _plan4fftw # NULL
  /\ calls = 2
  /\ 0 < nframes
  /\ nframes < ECHANTILLONS
  /\ entry_samples # Zeros(ECHANTILLONS)
  /\ _samples # entry_samples
  /\ _hauteurs # Zeros(FREQUENCES)

\* The indices of a window or staging array, of the heights, of a block of m.
WindowIndex == 0..(ECHANTILLONS - 1)
HauteurIndex == 0..(FREQUENCES - 1)
BlockIndex(m) == 0..(m - 1)

\* C16: at every step of mixCallback the index it is about to use on _samples
\* and on the staging array is in [0, ECHANTILLONS), the one it uses on
\* _hauteurs (and on the output it reads for it) is in [0, FREQUENCES), the one
\* it uses on the block is in [0, nframes); _samples and _hauteurs keep their
\* sizes in every state.
C16_IndicesInBounds ==
  /\ DOMAIN _samples = WindowIndex
  /\ DOMAIN _hauteurs = HauteurIndex
  /\ DOMAIN buffer = BlockIndex(nframes)
  /\ cb_pc = "replace" => cb_i \in WindowIndex /\ cb_i \in BlockIndex(nframes)
  /\ cb_pc = "shift" =>
       cb_i \in WindowIndex /\ ShiftTo(cb_i, nframes) \in WindowIndex
  /\ cb_pc = "append" =>
       /\ cb_i \in BlockIndex(nframes)
       /\ AppendTo(cb_i, ECHANTILLONS - nframes) \in WindowIndex
  /\ cb_pc = "stage" => cb_i \in WindowIndex /\ DOMAIN _in4fftw = WindowIndex
  /\ cb_pc = "hauteurs" =>
       cb_i \in HauteurIndex /\ HauteurIndex \subseteq DOMAIN _out4fftw

\* C16's case: the callback is about to move the last sample of the window
\* down by a block of one frame fewer than the window holds.
C16_Witness ==
  /\ cb_pc = "shift"
  /\ nframes = ECHANTILLONS - 1
  /\ cb_i = ECHANTILLONS - 1
  /\ calls = 2

\* C17: once the process has ended, the jack client it opened is closed and
\* the plan and the two arrays of fftw are released (before init nothing is
\* opened or allocated, so the ends that precede init satisfy this as well).
C17_ReleasedAtExit ==
  pc = "exited" =>
    /\ _client = NULL
    /\ _plan4fftw = NULL
    /\ IsNullArray(_in4fftw)
    /\ IsNullArray(_out4fftw)

\* The steps of draw: its start from the main loop, and the steps of the main
\* thread while it is inside draw (a step of the callback leaves pc and draw_i
\* as they are).
DrawStart == pc = "loop" /\ pc' \in {"draw_wave", "draw_freq"}
DrawStep ==
  /\ pc \in {"draw_wave", "draw_freq", "draw_update"}
  /\ <<pc, draw_i>>' # <<pc, draw_i>>

\* C18: no step of draw changes _samples, _hauteurs, waveform, the plan or the
\* two arrays of fftw; draw takes the loop over _samples exactly when waveform
\* is 1, each pixel of that loop is computed from _samples[i] and none of
\* _hauteurs is read, and each pixel of the other loop is computed from
\* _hauteurs[i].
C18_DrawReadsOnly ==
  [][/\ (DrawStart \/ DrawStep) =>
          UNCHANGED <<_samples, _hauteurs, waveform, _plan4fftw, _in4fftw,
                      _out4fftw>>
     /\ DrawStart => (pc' = "draw_wave" <=> waveform = 1)
     /\ (DrawStep /\ pc = "draw_wave") =>
          /\ waveform = 1
          /\ pixel' = <<Column(draw_i, ECHANTILLONS), WaveRow(_samples[draw_i])>>
          /\ frame' = frame
     /\ (DrawStep /\ pc = "draw_freq") =>
          /\ waveform # 1
          /\ pixel' = <<Column(draw_i, FREQUENCES), HauteurRow(_hauteurs[draw_i])>>
          /\ frame' = Append(frame, _hauteurs[draw_i])]_vars

\* C18's case: a frame in waveform mode has drawn its last pixel from a window
\* that holds input, while the heights hold a pass's output.
C18_Witness ==
  /\ pc = "draw_update"
  /\ waveform = 1
  /\ pixel # NoPixel
  /\ _samples # Zeros(ECHANTILLONS)
  /\ _hauteurs # Zeros(FREQUENCES)

\* The steps an invocation of mixCallback has left, counted from where it is:
\* the rest of its current loop, then the loops and calls that follow it.
AfterStage == FREQUENCES + 2
AfterIngest == ECHANTILLONS + AfterStage
StepsLeft ==
  CASE cb_pc = "idle" -> 0
    [] cb_pc = "return" -> 1
    [] cb_pc = "hauteurs" -> (FREQUENCES - cb_i) + 1
    [] cb_pc = "execute" -> AfterStage
    [] cb_pc = "stage" -> (ECHANTILLONS - cb_i) + AfterStage
    [] cb_pc = "append" -> (nframes - cb_i) + AfterIngest
    [] cb_pc = "shift" -> (ECHANTILLONS - cb_i) + nframes + AfterIngest
    [] cb_pc = "replace" -> (ECHANTILLONS - cb_i) + AfterIngest
    [] OTHER -> 0 - 1

\* Some step of an invocation in progress can be taken.
CbCanStep ==
  ENABLED (CbReplace \/ CbShift \/ CbAppend \/ CbStage \/ CbExecute
             \/ CbHauteurs \/ CbReturn)

\* C19: an invocation of mixCallback starts with at most 2 * ECHANTILLONS +
\* FREQUENCES + 2 steps left whatever the size of its block and whether or not
\* the plan exists, each of its steps leaves one step fewer, a step is always
\* possible while it is in progress (it waits for nothing), no step creates
\* or frees the plan or an array or resizes one, and the step that ends it
\* leaves status 0.
C19_BoundedNoAllocReturns0 ==
  /\ [](cb_pc # "idle" => CbCanStep)
  /\ [][/\ (cb_pc = "idle" /\ cb_pc' # "idle") =>
             /\ StepsLeft' >= 1
             /\ StepsLeft' <= ECHANTILLONS + AfterIngest
        /\ (cb_pc # "idle" /\ <<cb_pc, cb_i>>' # <<cb_pc, cb_i>>) =>
             /\ StepsLeft' = StepsLeft - 1
             /\ _plan4fftw' = _plan4fftw
             /\ DOMAIN _in4fftw' = DOMAIN _in4fftw
             /\ DOMAIN _out4fftw' = DOMAIN _out4fftw
             /\ DOMAIN _samples' = DOMAIN _samples
             /\ DOMAIN _hauteurs' = DOMAIN _hauteurs
             /\ cb_pc' = "idle" => cb_status' = 0]_vars

\* C19's case: an invocation on a block longer than the window has returned
\* with status 0, and so has one that found no work to shift (an empty block
\* is told apart by nframes, so the two are stated as alternatives).
C19_Witness ==
  /\ cb_pc = "idle"
  /\ cb_status = 0
  /\ calls = 2
  /\ nframes > ECHANTILLONS \/ nframes = 0

\* C20: jack invoking mixCallback only while the client is active, every
\* invocation starts with a plan and goes into ingestion, never straight to
\* the return; the callback is registered only once the plan exists, and the
\* plan is set to NULL only once the client is closed.
C20_PlanAtEveryInvocation ==
  [][/\ (cb_pc = "idle" /\ cb_pc' # "idle") =>
          (_plan4fftw # NULL /\ cb_pc' \in {"replace", "shift", "append", "stage"})
     /\ (~callbackSet /\ callbackSet') => _plan4fftw # NULL
     /\ (_plan4fftw # NULL /\ _plan4fftw' = NULL) =>
          (_client = NULL /\ ~active /\ cb_pc = "idle")]_vars

\* C20's case: quit is closing the client while the last invocation jack made
\* is still staging its window, the plan not yet destroyed.
C20_Witness ==
  /\ pc = "quit_closing"
  /\ cb_pc = "stage"
  /\ calls = MaxCalls
  /\ _plan4fftw # NULL

====
